---- MODULE Spec2Model ----
(* Model of the worker control loop of src/ml_task_runner.py: the main loop  *)
(* MLTaskRunner.run, task acquisition get_classifier (retried by             *)
(* backoff.on_predicate), and the signal handler MLTaskRunner.shutdown,      *)
(* which CPython runs in the main thread, nested on top of whatever the main *)
(* loop (or an earlier handler invocation) was doing when the signal came.   *)
EXTENDS Integers, Sequences, FiniteSets, TLC

\* ---------------------------------------------------------------- bounds
MaxTasks == 2      \* tasks the coordination service can hand out
MaxPolls == 1      \* get_classifiers polls within one get_classifier call
MaxSignals == 2    \* external SIGINT/SIGTERM deliveries
MaxBackoffPolls == 5  \* polls of one call when no outside signal is delivered

\* ------------------------------------------------------------- constants
None == 0          \* Python None for the held-task reference
NoExit == -1       \* the process has not terminated

factor == 2        \* backoff.expo factor, line 50
base == 2          \* backoff.expo base (its default)
max_value == 30    \* backoff.expo max_value, line 50

Tasks == 1..MaxTasks

VARIABLES
    pc,                    \* position of the main thread inside run
    classifier,            \* self.classifier
    shutting_down,         \* self.shutting_down
    download_complete,     \* self.download_complete
    classifiers,           \* local of get_classifier: last get_classifiers response
    ret,                   \* value get_classifier returned, not yet stored
    notebook_output_path,  \* local of run
    polls,                 \* get_classifiers calls made by the current get_classifier call
    responses,             \* responses get_classifiers gave to the current call
    waits,                 \* backoff waits of the current call: interval and sleep
    hstack,                \* active shutdown frames, innermost last
    pending,               \* SIGTERM sent by os.kill and not yet handled
    exit_status,           \* NoExit, or the exit status of the process
    calls,                 \* upload/fail/release calls made on core_client, in order
    claimed,               \* tasks get_classifier has returned
    signals,               \* external signals delivered so far
    prepRuns,              \* executions of run_notebook('1.download') started
    prepFailed,            \* run_notebook('1.download') has raised
    computeStarted,        \* tasks whose computation stage was started
    computeOk,             \* tasks whose computation stage returned
    computeRaised,         \* tasks whose computation stage raised
    uploadRaised,          \* tasks whose upload_notebook call raised
    releaseRaised,         \* some release_classifier call raised
    heldAtSignal           \* tasks held in self.classifier, unreported, when a signal came

vars == <<pc, classifier, shutting_down, download_complete, classifiers, ret,
          notebook_output_path, polls, responses, waits, hstack, pending, exit_status, calls,
          claimed, signals, prepRuns, prepFailed, computeStarted, computeOk,
          computeRaised, uploadRaised, releaseRaised, heldAtSignal>>

backoffVars == <<responses, waits>>
mainVars == <<pc, classifier, download_complete, classifiers, ret,
              notebook_output_path, polls, backoffVars>>
histVars == <<claimed, prepRuns, prepFailed, computeStarted, computeOk,
              computeRaised, uploadRaised>>
sigVars == <<shutting_down, hstack, signals, releaseRaised, heldAtSignal>>

\* ------------------------------------------------------------ pure parts

\* run_notebook: the path it returns depends on the notebook name only.
run_notebook(notebook_name) == <<"notebooks/output", notebook_name, ".output.ipynb">>

\* get_classifier returning the last element of the response.
get_classifier_last(cs) == IF Len(cs) > 0 THEN cs[Len(cs)] ELSE None

\* Body of get_classifier: first element of a non-empty response, else None.
get_classifier(cs) == IF Len(cs) > 0 THEN cs[1] ELSE None

\* backoff.on_predicate with the default predicate retries on a falsy value.
on_predicate(value) == value = None

\* backoff.expo: the n-th interval is factor * base^n, capped at max_value.
expo_uncapped(n) == factor * base ^ n

expo(n) == LET a == factor * base ^ n IN IF a < max_value THEN a ELSE max_value

\* backoff.full_jitter: random.uniform(0, value), sampled at both ends and
\* in the middle.
full_jitter(value) == {0, value \div 2, value}

\* Responses get_classifiers can give: unclaimed tasks, in any order, at most two.
Unclaimed == Tasks \ claimed
Responses == {<< >>} \cup {<<a>> : a \in Unclaimed}
             \cup {r \in Unclaimed \X Unclaimed : r[1] # r[2]}

Call(op, task, path) == [op |-> op, task |-> task, path |-> path]
NoPath == << >>

CallsOf(op, t) == SelectSeq(calls, LAMBDA c : c.op = op /\ c.task = t)
ReportsOf(t) == SelectSeq(calls, LAMBDA c : c.task = t)
Reported(t) == Len(ReportsOf(t)) > 0

Running == exit_status = NoExit
InMain == Running /\ hstack = << >>

\* The try blocks of run (lines 71-74 and 89-95); both except clauses are
\* 'except Exception', which SystemExit is not.
TryRegion == {"prep", "compute", "upload", "uploading"}

\* CaughtByRun with bare 'except:' clauses, which catch SystemExit as well.
CaughtByRun_bare_except(exc, at) == at \in TryRegion

CaughtByRun(exc, at) == exc = "Exception" /\ at \in TryRegion

\* Where run goes on when an except clause has caught: after the os.kill of
\* line 78, or at the fail_classifier call of line 99.
ExceptTarget(at) == IF at = "prep" THEN "env" ELSE "fail"

\* ------------------------------------------------------------------ init
Init ==
    /\ pc = "loop"
    /\ classifier = None
    /\ shutting_down = FALSE
    /\ download_complete = FALSE
    /\ classifiers = << >>
    /\ ret = None
    /\ notebook_output_path = NoPath
    /\ polls = 0
    /\ responses = << >>
    /\ waits = << >>
    /\ hstack = << >>
    /\ pending = FALSE
    /\ exit_status = NoExit
    /\ calls = << >>
    /\ claimed = {}
    /\ signals = 0
    /\ prepRuns = 0
    /\ prepFailed = FALSE
    /\ computeStarted = {}
    /\ computeOk = {}
    /\ computeRaised = {}
    /\ uploadRaised = {}
    /\ releaseRaised = FALSE
    /\ heldAtSignal = {}

\* ------------------------------------------------------- main loop: run

\* line 60-61: the while test, then the call of get_classifier starts.
LoopTest ==
    /\ InMain /\ pc = "loop"
    /\ IF shutting_down
       THEN /\ exit_status' = 0
            /\ UNCHANGED <<pc, polls>>
       ELSE /\ pc' = "poll"
            /\ polls' = 0
            /\ UNCHANGED exit_status
    /\ UNCHANGED <<classifier, download_complete, classifiers, ret,
                   notebook_output_path, pending, calls>>
    /\ UNCHANGED histVars /\ UNCHANGED sigVars
    /\ responses' = IF shutting_down THEN responses ELSE << >>
    /\ waits' = IF shutting_down THEN waits ELSE << >>

\* line 52: get_classifiers returns a response; cap bounds the polls of one
\* get_classifier call.
PollUpTo(cap) ==
    /\ InMain /\ pc = "poll" /\ polls < cap
    /\ \E resp \in Responses :
          /\ classifiers' = resp
          /\ responses' = Append(responses, resp)
    /\ polls' = polls + 1
    /\ pc' = "polled"
    /\ UNCHANGED <<classifier, download_complete, ret, notebook_output_path,
                   pending, exit_status, calls>>
    /\ UNCHANGED histVars /\ UNCHANGED sigVars
    /\ UNCHANGED waits

Poll == PollUpTo(MaxPolls)

\* line 52 again, with the bound of the specification without outside signals.
BackoffPoll == PollUpTo(MaxBackoffPolls)

\* line 52: get_classifiers raises; nothing in get_classifier or run catches it.
PollRaise ==
    /\ InMain /\ pc = "poll" /\ polls < MaxPolls
    /\ polls' = polls + 1
    /\ exit_status' = IF CaughtByRun("Exception", pc) THEN NoExit ELSE 1
    /\ UNCHANGED <<pc, classifier, download_complete, classifiers, ret,
                   notebook_output_path, pending, calls>>
    /\ UNCHANGED histVars /\ UNCHANGED sigVars
    /\ UNCHANGED backoffVars

\* lines 54-57 and the decorator of line 50: a falsy value is retried after a
\* sleep, anything else is returned to run.
Polled ==
    /\ InMain /\ pc = "polled"
    /\ LET value == get_classifier(classifiers) IN
       IF on_predicate(value)
       THEN /\ pc' = "wait"
            /\ UNCHANGED <<ret, claimed>>
       ELSE /\ pc' = "ret"
            /\ ret' = value
            /\ claimed' = claimed \cup {value}
    /\ UNCHANGED <<classifier, download_complete, classifiers,
                   notebook_output_path, polls, pending, exit_status, calls>>
    /\ UNCHANGED <<prepRuns, prepFailed, computeStarted, computeOk,
                   computeRaised, uploadRaised>>
    /\ UNCHANGED sigVars
    /\ UNCHANGED backoffVars

\* line 50: the next interval is taken from backoff.expo, jittered, and slept.
Wait ==
    /\ InMain /\ pc = "wait"
    /\ pc' = "poll"
    /\ LET value == expo(Len(waits)) IN
       \E seconds \in full_jitter(value) :
          waits' = Append(waits, [value |-> value, seconds |-> seconds])
    /\ UNCHANGED responses
    /\ UNCHANGED <<classifier, download_complete, classifiers, ret,
                   notebook_output_path, polls, pending, exit_status, calls>>
    /\ UNCHANGED histVars /\ UNCHANGED sigVars

\* lines 61-69: the returned value is stored in self.classifier; None sleeps
\* and continues the loop.
Store ==
    /\ InMain /\ pc = "ret"
    /\ classifier' = ret
    /\ pc' = IF ret = None THEN "loop" ELSE "start"
    /\ UNCHANGED <<download_complete, classifiers, ret, notebook_output_path,
                   polls, pending, exit_status, calls>>
    /\ UNCHANGED histVars /\ UNCHANGED sigVars
    /\ responses' = << >>
    /\ waits' = << >>

\* lines 71-73: the preparation stage starts unless it has completed before.
Start ==
    /\ InMain /\ pc = "start"
    /\ IF ~download_complete
       THEN /\ pc' = "prep"
            /\ prepRuns' = prepRuns + 1
       ELSE /\ pc' = "env"
            /\ UNCHANGED prepRuns
    /\ UNCHANGED <<classifier, download_complete, classifiers, ret,
                   notebook_output_path, polls, pending, exit_status, calls>>
    /\ UNCHANGED <<claimed, prepFailed, computeStarted, computeOk,
                   computeRaised, uploadRaised>>
    /\ UNCHANGED sigVars
    /\ UNCHANGED backoffVars

\* PrepReturn without line 74: the flag is never set.
PrepReturn_flag_not_set ==
    /\ InMain /\ pc = "prep"
    /\ pc' = "env"
    /\ UNCHANGED <<classifier, download_complete, classifiers, ret,
                   notebook_output_path, polls, pending, exit_status, calls>>
    /\ UNCHANGED histVars /\ UNCHANGED sigVars
    /\ UNCHANGED backoffVars

\* lines 73-74: run_notebook('1.download') returns.
PrepReturn ==
    /\ InMain /\ pc = "prep"
    /\ download_complete' = TRUE
    /\ pc' = "env"
    /\ UNCHANGED <<classifier, classifiers, ret, notebook_output_path, polls,
                   pending, exit_status, calls>>
    /\ UNCHANGED histVars /\ UNCHANGED sigVars
    /\ UNCHANGED backoffVars

\* PrepRaise without line 78: the failure is logged and no signal is sent.
PrepRaise_no_kill ==
    /\ InMain /\ pc = "prep"
    /\ pc' = "env"
    /\ prepFailed' = TRUE
    /\ UNCHANGED <<classifier, download_complete, classifiers, ret,
                   notebook_output_path, polls, pending, exit_status, calls>>
    /\ UNCHANGED <<claimed, prepRuns, computeStarted, computeOk,
                   computeRaised, uploadRaised>>
    /\ UNCHANGED sigVars
    /\ UNCHANGED backoffVars

\* lines 75-78: run_notebook('1.download') raises; the except clause sends
\* SIGTERM to the process itself and falls through to line 80.
PrepRaise ==
    /\ InMain /\ pc = "prep"
    /\ IF CaughtByRun("Exception", pc)
       THEN /\ pending' = TRUE
            /\ pc' = "env"
            /\ UNCHANGED exit_status
       ELSE /\ exit_status' = 1
            /\ UNCHANGED <<pending, pc>>
    /\ prepFailed' = TRUE
    /\ UNCHANGED <<classifier, download_complete, classifiers, ret,
                   notebook_output_path, polls, calls>>
    /\ UNCHANGED <<claimed, prepRuns, computeStarted, computeOk,
                   computeRaised, uploadRaised>>
    /\ UNCHANGED sigVars
    /\ UNCHANGED backoffVars

\* lines 80-90: the environment is set from the task and the computation
\* stage starts.
Env ==
    /\ InMain /\ pc = "env"
    /\ pc' = "compute"
    /\ computeStarted' = computeStarted \cup {classifier}
    /\ UNCHANGED <<classifier, download_complete, classifiers, ret,
                   notebook_output_path, polls, pending, exit_status, calls>>
    /\ UNCHANGED <<claimed, prepRuns, prepFailed, computeOk, computeRaised,
                   uploadRaised>>
    /\ UNCHANGED sigVars
    /\ UNCHANGED backoffVars

\* lines 90-92: run_notebook('2.mutation-classifier') returns its output path.
\* A signal the process sent to itself is handled by the main thread before a
\* stage that has only just started can end.
ComputeReturn ==
    /\ InMain /\ pc = "compute" /\ ~pending
    /\ notebook_output_path' = run_notebook("2.mutation-classifier")
    /\ pc' = "upload"
    /\ computeOk' = computeOk \cup {classifier}
    /\ UNCHANGED <<classifier, download_complete, classifiers, ret, polls,
                   pending, exit_status, calls>>
    /\ UNCHANGED <<claimed, prepRuns, prepFailed, computeStarted,
                   computeRaised, uploadRaised>>
    /\ UNCHANGED sigVars
    /\ UNCHANGED backoffVars

\* ComputeRaise with an except clause that only logs: fail_classifier is not
\* called and the loop goes on.
ComputeRaise_only_logged ==
    /\ InMain /\ pc = "compute" /\ ~pending
    /\ pc' = "loop"
    /\ computeRaised' = computeRaised \cup {classifier}
    /\ UNCHANGED <<classifier, download_complete, classifiers, ret,
                   notebook_output_path, polls, pending, exit_status, calls>>
    /\ UNCHANGED <<claimed, prepRuns, prepFailed, computeStarted, computeOk,
                   uploadRaised>>
    /\ UNCHANGED sigVars
    /\ UNCHANGED backoffVars

\* lines 90, 96-98: run_notebook('2.mutation-classifier') raises.
ComputeRaise ==
    /\ InMain /\ pc = "compute" /\ ~pending
    /\ IF CaughtByRun("Exception", pc)
       THEN /\ pc' = "fail"
            /\ UNCHANGED exit_status
       ELSE /\ exit_status' = 1
            /\ UNCHANGED pc
    /\ computeRaised' = computeRaised \cup {classifier}
    /\ UNCHANGED <<classifier, download_complete, classifiers, ret,
                   notebook_output_path, polls, pending, calls>>
    /\ UNCHANGED <<claimed, prepRuns, prepFailed, computeStarted, computeOk,
                   uploadRaised>>
    /\ UNCHANGED sigVars
    /\ UNCHANGED backoffVars

\* UploadCall passing the notebook's input path instead of the returned one.
UploadCall_input_path ==
    /\ InMain /\ pc = "upload"
    /\ calls' = Append(calls, Call("upload_notebook", classifier,
                                   <<"notebooks", "2.mutation-classifier", ".ipynb">>))
    /\ pc' = "uploading"
    /\ UNCHANGED <<classifier, download_complete, classifiers, ret,
                   notebook_output_path, polls, pending, exit_status>>
    /\ UNCHANGED histVars /\ UNCHANGED sigVars
    /\ UNCHANGED backoffVars

\* line 93: upload_notebook is called with self.classifier and the path.
UploadCall ==
    /\ InMain /\ pc = "upload"
    /\ calls' = Append(calls, Call("upload_notebook", classifier, notebook_output_path))
    /\ pc' = "uploading"
    /\ UNCHANGED <<classifier, download_complete, classifiers, ret,
                   notebook_output_path, polls, pending, exit_status>>
    /\ UNCHANGED histVars /\ UNCHANGED sigVars
    /\ UNCHANGED backoffVars

\* lines 93-95: upload_notebook returns; the loop body ends.
UploadReturn ==
    /\ InMain /\ pc = "uploading"
    /\ pc' = "loop"
    /\ UNCHANGED <<classifier, download_complete, classifiers, ret,
                   notebook_output_path, polls, pending, exit_status, calls>>
    /\ UNCHANGED histVars /\ UNCHANGED sigVars
    /\ UNCHANGED backoffVars

\* lines 93, 96-98: upload_notebook raises.
UploadRaise ==
    /\ InMain /\ pc = "uploading"
    /\ IF CaughtByRun("Exception", pc)
       THEN /\ pc' = "fail"
            /\ UNCHANGED exit_status
       ELSE /\ exit_status' = 1
            /\ UNCHANGED pc
    /\ uploadRaised' = uploadRaised \cup {classifier}
    /\ UNCHANGED <<classifier, download_complete, classifiers, ret,
                   notebook_output_path, polls, pending, calls>>
    /\ UNCHANGED <<claimed, prepRuns, prepFailed, computeStarted, computeOk,
                   computeRaised>>
    /\ UNCHANGED sigVars
    /\ UNCHANGED backoffVars

\* line 99: fail_classifier is called with self.classifier.
FailCall ==
    /\ InMain /\ pc = "fail"
    /\ calls' = Append(calls, Call("fail_classifier", classifier, NoPath))
    /\ pc' = "failing"
    /\ UNCHANGED <<classifier, download_complete, classifiers, ret,
                   notebook_output_path, polls, pending, exit_status>>
    /\ UNCHANGED histVars /\ UNCHANGED sigVars
    /\ UNCHANGED backoffVars

\* FailReturn with a failed task treated as fatal: the process ends.
FailReturn_fatal ==
    /\ InMain /\ pc = "failing"
    /\ pc' = "loop"
    /\ exit_status' = 1
    /\ UNCHANGED <<classifier, download_complete, classifiers, ret,
                   notebook_output_path, polls, pending, calls>>
    /\ UNCHANGED histVars /\ UNCHANGED sigVars
    /\ UNCHANGED backoffVars

\* line 99: fail_classifier returns; the loop body ends.
FailReturn ==
    /\ InMain /\ pc = "failing"
    /\ pc' = "loop"
    /\ UNCHANGED <<classifier, download_complete, classifiers, ret,
                   notebook_output_path, polls, pending, exit_status, calls>>
    /\ UNCHANGED histVars /\ UNCHANGED sigVars
    /\ UNCHANGED backoffVars

\* line 99: fail_classifier raises inside the except clause; nothing catches it.
FailRaise ==
    /\ InMain /\ pc = "failing"
    /\ exit_status' = IF CaughtByRun("Exception", pc) THEN NoExit ELSE 1
    /\ UNCHANGED <<pc, classifier, download_complete, classifiers, ret,
                   notebook_output_path, polls, pending, calls>>
    /\ UNCHANGED histVars /\ UNCHANGED sigVars
    /\ UNCHANGED backoffVars

\* ------------------------------------------------ signal handler: shutdown

Top == hstack[Len(hstack)]
SetTop(pos) == [hstack EXCEPT ![Len(hstack)] = pos]
Pop == SubSeq(hstack, 1, Len(hstack) - 1)

HeldUnreported == IF classifier # None /\ ~Reported(classifier)
                  THEN {classifier} ELSE {}

\* Enter with the flag flipped instead of set.
Enter_toggles_flag ==
    /\ shutting_down' = ~shutting_down
    /\ hstack' = Append(hstack, "check")
    /\ heldAtSignal' = heldAtSignal \cup HeldUnreported

\* lines 101-102: the handler is entered on top of the interrupted code and
\* sets the flag.
Enter ==
    /\ shutting_down' = TRUE
    /\ hstack' = Append(hstack, "check")
    /\ heldAtSignal' = heldAtSignal \cup HeldUnreported

\* lines 125-126: SIGINT or SIGTERM is delivered from outside, at any point.
Signal ==
    /\ Running /\ signals < MaxSignals
    /\ signals' = signals + 1
    /\ Enter
    /\ UNCHANGED <<pending, exit_status, calls, releaseRaised>>
    /\ UNCHANGED mainVars /\ UNCHANGED histVars

\* line 78: the SIGTERM of os.kill is handled.
SelfSignal ==
    /\ Running /\ pending
    /\ pending' = FALSE
    /\ Enter
    /\ UNCHANGED <<signals, exit_status, calls, releaseRaised>>
    /\ UNCHANGED mainVars /\ UNCHANGED histVars

\* lines 104-109: release_classifier is called if a task is recorded as held.
ShutdownCheck ==
    /\ Running /\ hstack # << >> /\ Top = "check"
    /\ IF classifier # None
       THEN /\ calls' = Append(calls, Call("release_classifier", classifier, NoPath))
            /\ hstack' = SetTop("releasing")
       ELSE /\ hstack' = SetTop("finally")
            /\ UNCHANGED calls
    /\ UNCHANGED <<shutting_down, signals, releaseRaised, heldAtSignal,
                   pending, exit_status>>
    /\ UNCHANGED mainVars /\ UNCHANGED histVars

\* lines 106-107: release_classifier returns.
ReleaseReturn ==
    /\ Running /\ hstack # << >> /\ Top = "releasing"
    /\ hstack' = SetTop("finally")
    /\ UNCHANGED <<shutting_down, signals, releaseRaised, heldAtSignal,
                   pending, exit_status, calls>>
    /\ UNCHANGED mainVars /\ UNCHANGED histVars

\* ReleaseRaise with sys.exit(0) at the end of the try body instead of in a
\* finally clause: the error leaves the handler and run uncaught.
ReleaseRaise_exit_in_try ==
    /\ Running /\ hstack # << >> /\ Top = "releasing"
    /\ hstack' = << >>
    /\ exit_status' = 1
    /\ releaseRaised' = TRUE
    /\ UNCHANGED <<shutting_down, signals, heldAtSignal, pending, calls>>
    /\ UNCHANGED mainVars /\ UNCHANGED histVars

\* lines 106, 110-112: release_classifier raises; 'except Exception' logs it.
ReleaseRaise ==
    /\ Running /\ hstack # << >> /\ Top = "releasing"
    /\ hstack' = SetTop("finally")
    /\ releaseRaised' = TRUE
    /\ UNCHANGED <<shutting_down, signals, heldAtSignal, pending,
                   exit_status, calls>>
    /\ UNCHANGED mainVars /\ UNCHANGED histVars

\* ShutdownExit without sys.exit(0): the handler returns and the interrupted
\* code resumes.
ShutdownExit_returns ==
    /\ Running /\ hstack # << >> /\ Top = "finally"
    /\ hstack' = Pop
    /\ UNCHANGED <<shutting_down, signals, releaseRaised, heldAtSignal,
                   pending, exit_status, calls>>
    /\ UNCHANGED mainVars /\ UNCHANGED histVars

\* lines 113-115: sys.exit(0) raises SystemExit out of the handler. In an
\* interrupted outer handler it reaches that handler's finally clause; in run
\* no except clause catches it and the process exits with status 0.
ShutdownExit ==
    /\ Running /\ hstack # << >> /\ Top = "finally"
    /\ IF Len(hstack) > 1
       THEN /\ hstack' = [Pop EXCEPT ![Len(hstack) - 1] = "finally"]
            /\ UNCHANGED <<exit_status, pc, pending>>
       ELSE /\ hstack' = Pop
            /\ IF CaughtByRun("SystemExit", pc)
               THEN /\ pc' = ExceptTarget(pc)
                    /\ pending' = (pending \/ pc = "prep")
                    /\ UNCHANGED exit_status
               ELSE /\ exit_status' = 0
                    /\ UNCHANGED <<pc, pending>>
    /\ UNCHANGED <<shutting_down, signals, releaseRaised, heldAtSignal, calls>>
    /\ UNCHANGED <<classifier, download_complete, classifiers, ret,
                   notebook_output_path, polls, backoffVars>>
    /\ UNCHANGED histVars

\* -------------------------------------------------------- specification
Next ==
    \/ LoopTest \/ Poll \/ PollRaise \/ Polled \/ Wait \/ Store
    \/ Start \/ PrepReturn \/ PrepRaise \/ Env
    \/ ComputeReturn \/ ComputeRaise
    \/ UploadCall \/ UploadReturn \/ UploadRaise
    \/ FailCall \/ FailReturn \/ FailRaise
    \/ Signal \/ SelfSignal
    \/ ShutdownCheck \/ ReleaseReturn \/ ReleaseRaise \/ ShutdownExit

Spec == Init /\ [][Next]_vars

TypeOK ==
    /\ pc \in {"loop", "poll", "polled", "wait", "ret", "start", "prep", "env",
               "compute", "upload", "uploading", "fail", "failing"}
    /\ classifier \in {None} \cup Tasks
    /\ exit_status \in {NoExit, 0, 1}
    /\ polls \in 0..MaxPolls
    /\ signals \in 0..MaxSignals

\* Fairness: a started handler keeps executing (the main thread runs it to its
\* end) and the release_classifier call it makes comes back.
FairSpec ==
    /\ Spec
    /\ WF_vars(ShutdownCheck)
    /\ WF_vars(ReleaseReturn \/ ReleaseRaise)
    /\ WF_vars(ShutdownExit)

\* ----------------------------------------------------------------- claims

Releases == SelectSeq(calls, LAMBDA c : c.op = "release_classifier")
Exited == exit_status # NoExit

\* C1: for every task at most one of upload_notebook, fail_classifier and
\* release_classifier is ever invoked, and none of them twice.
C1_AtMostOneTerminalReport ==
    \A t \in Tasks : Len(ReportsOf(t)) <= 1

\* C2: once the process has exited, or the main loop is at its next
\* get_classifiers poll, every claimed task has had a terminal report.
C2_EveryClaimedTaskReported ==
    (Exited \/ pc = "poll") => \A t \in claimed : Reported(t)

\* C3: self.classifier is non-None exactly when a claimed task has not been
\* uploaded, marked failed or released. Only states of the main loop are
\* looked at, and neither the instant between the return of get_classifier
\* and the assignment of line 61 nor a report still in progress.
C3_HeldIffClaimedUnreported ==
    (InMain /\ pc \notin {"ret", "uploading", "failing"})
        => ((classifier # None) <=> (\E t \in claimed : ~Reported(t)))

\* C4: a task held and unreported when a signal is delivered has been
\* released exactly once when the process is gone.
C4_HeldTaskReleasedExactlyOnce ==
    Exited => \A t \in heldAtSignal : Len(CallsOf("release_classifier", t)) = 1

\* C5: release_classifier is never invoked a second time, however many
\* signals are delivered, and the process does not crash in shutdown.
C5_ShutdownIsOneShot ==
    /\ Len(Releases) <= 1
    /\ shutting_down => exit_status \in {NoExit, 0}

\* C6: once shutdown has been invoked the process never ends with a status
\* other than 0, and it does end, whether release_classifier returns or raises.
C6_ShutdownAlwaysExitsZero ==
    /\ [](shutting_down => exit_status \in {NoExit, 0})
    /\ [](hstack # << >> => Running)
    /\ (shutting_down ~> exit_status = 0)

C6_Witness ==
    /\ exit_status = 0
    /\ releaseRaised
    /\ Len(Releases) > 0

\* C7: after the computation stage raised for a task, fail_classifier has
\* been called with that task and self.classifier no longer refers to it when
\* the next get_classifier call polls.
C7_FailedTaskClearedBeforeNextAcquire ==
    \A t \in computeRaised :
        /\ (pc = "fail" /\ classifier = t) \/ Len(CallsOf("fail_classifier", t)) = 1
        /\ pc \in {"poll", "polled", "wait"} => classifier = None

C9_PreparationAtMostOnce ==
    prepRuns <= 1

C9_Witness ==
    /\ prepRuns = 1
    /\ download_complete
    /\ Cardinality(computeStarted) >= 2

\* C10 as stated: when the preparation stage has raised no task is held and
\* release_classifier is not called.
C10_PrepFailureFindsNoTask ==
    prepFailed => (classifier = None /\ Len(Releases) = 0)

\* C10 as amended: when the preparation stage has raised, SIGTERM has been
\* sent to the process itself, the task just claimed is held and neither
\* uploaded nor marked failed, the process does not crash, and when it has
\* exited (with status 0) release_classifier has been called with that task
\* and with no other.
C10_PrepFailureReleasesHeldTask ==
    prepFailed =>
        /\ pending \/ shutting_down
        /\ classifier # None /\ classifier \in claimed
        /\ Len(CallsOf("upload_notebook", classifier)) = 0
        /\ Len(CallsOf("fail_classifier", classifier)) = 0
        /\ exit_status \in {NoExit, 0}
        /\ exit_status = 0 =>
              /\ Len(Releases) >= 1
              /\ \A i \in 1..Len(Releases) : Releases[i].task = classifier

C10_Witness ==
    /\ prepFailed
    /\ exit_status = 0
    /\ Len(CallsOf("release_classifier", classifier)) = 1

\* C11: no failure of a stage or of a client call ends the process: it never
\* terminates with the status of an uncaught exception.
C11_NoFailureLeavesRun ==
    exit_status \in {NoExit, 0}

\* C15: shutting_down is false initially, is set only by an entry of
\* shutdown, and is never set back to false.
C15_StopFlagOneWay ==
    /\ ~shutting_down
    /\ [][/\ shutting_down => shutting_down'
          /\ (~shutting_down /\ shutting_down') => Len(hstack') = Len(hstack) + 1]_vars

C15_Witness ==
    /\ shutting_down
    /\ signals = 2
    /\ Len(hstack) = 2

Polling == {"poll", "polled", "wait"}
Unreported == {t \in claimed : ~Reported(t)}

\* C16: while get_classifier polls for a new task every task claimed before
\* has been reported, and at most one claimed task is unreported at any time.
C16_SingleTaskConcurrent ==
    /\ pc \in Polling => Unreported = {}
    /\ Cardinality(Unreported) <= 1

C16_Witness ==
    /\ pc = "polled"
    /\ Running
    /\ claimed # {}
    /\ classifiers # << >>

\* C17: the computation stage starts only when the preparation stage has
\* completed, and after a preparation failure it is not run for the held task
\* and neither upload_notebook nor fail_classifier is invoked for it.
C17_ComputationOnlyAfterPreparation ==
    /\ computeStarted # {} => download_complete
    /\ prepFailed =>
          /\ classifier \notin computeStarted
          /\ Len(CallsOf("upload_notebook", classifier)) = 0
          /\ Len(CallsOf("fail_classifier", classifier)) = 0

\* C14 as stated: when a shutdown has been requested during polling,
\* get_classifier returns control to run: the process does not end while the
\* main thread is still inside the polling loop.
C14_PollingReturnsToRunOnShutdown ==
    (shutting_down /\ Exited) => pc \notin Polling

\* C14 as amended: the polling loop never tests shutting_down; once a shutdown
\* has been requested during polling, no further poll is made and
\* get_classifier never returns to run, because shutdown ends the process
\* with status 0 from inside the call.
C14_ShutdownEndsPollingByExit ==
    /\ [][(shutting_down /\ pc \in Polling) => (pc' = pc /\ polls' = polls)]_vars
    /\ ((shutting_down /\ pc \in Polling) ~> (exit_status = 0 /\ pc \in Polling))

C14_Witness ==
    /\ shutting_down
    /\ pc = "wait"
    /\ classifier = None
    /\ exit_status = 0

\* C19: from the entry of shutdown on, the main loop does not move: its
\* position, its variables and the record of stages stay as they are, and the
\* only client call made is release_classifier.
C19_NoProgressAfterShutdownEntry ==
    [][shutting_down =>
          /\ mainVars' = mainVars
          /\ histVars' = histVars
          /\ calls' # calls =>
                /\ Len(calls') = Len(calls) + 1
                /\ calls'[Len(calls')].op = "release_classifier"]_vars

C19_Witness ==
    /\ shutting_down
    /\ exit_status = 0
    /\ pc = "compute"
    /\ Len(Releases) = 1

\* Fairness of the main loop: the sequential program keeps executing, and the
\* calls it makes on core_client come back (by returning or by raising).
LoopFairSpec ==
    /\ FairSpec
    /\ WF_vars(FailReturn \/ FailRaise)
    /\ WF_vars(LoopTest)
    /\ WF_vars(Poll \/ PollRaise)

\* C18: after the computation stage raised and fail_classifier was called,
\* unless fail_classifier raises or a signal is delivered, the main loop goes
\* on and issues a get_classifiers poll for the next task.
C18_ComputationFailureNotFatal ==
    (pc = "failing" /\ classifier \in computeRaised /\ InMain)
        ~> \/ pc = "polled" /\ Running
           \/ pc = "poll" /\ exit_status = 1
           \/ pc = "failing" /\ exit_status = 1
           \/ shutting_down

C18_Witness ==
    /\ pc = "polled"
    /\ Running
    /\ ~shutting_down
    /\ classifier \in computeRaised
    /\ Len(CallsOf("fail_classifier", classifier)) = 1

\* The worker when no signal comes from outside: the main loop, the SIGTERM it
\* sends to itself and the handler, with room for the backoff to reach its cap.
BackoffNext ==
    \/ LoopTest \/ BackoffPoll \/ PollRaise \/ Polled \/ Wait \/ Store
    \/ Start \/ PrepReturn \/ PrepRaise \/ Env
    \/ ComputeReturn \/ ComputeRaise
    \/ UploadCall \/ UploadReturn \/ UploadRaise
    \/ FailCall \/ FailReturn \/ FailRaise
    \/ SelfSignal
    \/ ShutdownCheck \/ ReleaseReturn \/ ReleaseRaise \/ ShutdownExit

BackoffSpec == Init /\ [][BackoffNext]_vars

\* C12: when get_classifier returns to run it has polled once per response,
\* every response but the last was empty, the last one is not, the value
\* returned is its first element and is not None.
C12_ReturnsFirstOfFirstNonEmpty ==
    pc = "ret" =>
        LET k == Len(responses) - 1 IN
        /\ k >= 0
        /\ polls = k + 1
        /\ \A i \in 1..k : responses[i] = << >>
        /\ responses[k + 1] # << >>
        /\ ret = responses[k + 1][1]
        /\ ret # None

C12_Witness ==
    /\ pc = "ret"
    /\ Len(responses) = 2
    /\ Len(responses[2]) = 2

\* C13 as stated: within one call the sleeps never get shorter and never
\* exceed the cap.
C13_SleepsNonDecreasing ==
    /\ \A i \in 1..Len(waits) : waits[i].seconds <= max_value
    /\ \A i \in 1..(Len(waits) - 1) : waits[i].seconds <= waits[i + 1].seconds

\* C13 as amended: within one call the computed intervals start at 2, double,
\* never decrease and never exceed 30, and each sleep lies between 0 and its
\* interval (so it never exceeds 30 either, but may be shorter than the one
\* before); the sequence starts again at 2 in every call.
C13_IntervalsNonDecreasingSleepsBounded ==
    /\ \A i \in 1..Len(waits) :
          /\ waits[i].value <= 30
          /\ 0 <= waits[i].seconds /\ waits[i].seconds <= waits[i].value
    /\ \A i \in 1..(Len(waits) - 1) :
          /\ waits[i].value <= waits[i + 1].value
          /\ waits[i + 1].value \in {2 * waits[i].value, 30}
    /\ waits # << >> => waits[1].value = 2

C13_Witness ==
    /\ Len(waits) = 5
    /\ waits[5].value = 30
    /\ waits[4].seconds = 16
    /\ waits[5].seconds = 15
    /\ claimed # {}

====
